---- MODULE Spec2Model ----
(***************************************************************************)
(* Model of scripts/validate-config.py, the DNS configuration validator:   *)
(* the provider rule engine (check_provider_compatibility), the statistics *)
(* summarizer (get_statistics), the schema check wrapper (validate_schema) *)
(* and the command line driver (main).                                     *)
(*                                                                         *)
(* Two specifications:                                                     *)
(*   Spec       one run of main, phase by phase;                           *)
(*   SpecRules  get_statistics and check_provider_compatibility applied to *)
(*              a document and a provider (or no provider).                *)
(***************************************************************************)
EXTENDS Naturals, Sequences, FiniteSets

VARIABLES
    \* ---- one run of main ----
    pc,               \* the phase main is about to execute
    args,             \* argparse result: [provider, strict]
    schema,           \* what load_schema returned
    config,           \* what load_config returned
    validation,       \* (schema_valid, schema_errors) once validate_schema ran
    stats,            \* what get_statistics returned
    compat,           \* (compat_ok, compat_warnings) of the --provider pass
    out,              \* the lines printed so far, in order
    calls,            \* the functions main has called so far, in order
    exit_code,        \* the exit status the process ends with (read once pc = "done")
    env,              \* what the run met outside the program (files, validator)
    \* ---- the two pure functions applied to a document ----
    r_pc, r_config, r_provider, r_result, r_stats

cli_vars == <<pc, args, schema, config, validation, stats, compat, out, calls,
              exit_code, env>>
rule_vars == <<r_pc, r_config, r_provider, r_result, r_stats>>
vars == <<pc, args, schema, config, validation, stats, compat, out, calls,
          exit_code, env, r_pc, r_config, r_provider, r_result, r_stats>>

(***************************************************************************)
(* Bounds of the model.                                                    *)
(***************************************************************************)
MaxZones == 2       \* zones in a document
MaxRecords == 2     \* records in a document, over all its zones
MaxErrors == 2      \* errors the schema validator yields for a document

(***************************************************************************)
(* Python values.  A string is the sequence of its characters, so that     *)
(* str.upper() is computed character by character.  A JSON object held in  *)
(* a field is abstracted to its number of entries (all that truthiness     *)
(* reads).  A missing dictionary key is the value Absent.                  *)
(***************************************************************************)
Absent == [k |-> "absent", s |-> <<>>, n |-> 0, b |-> FALSE]
PyStr(chars) == [k |-> "str", s |-> chars, n |-> 0, b |-> FALSE]
PyInt(i) == [k |-> "int", s |-> <<>>, n |-> i, b |-> FALSE]
PyBool(v) == [k |-> "bool", s |-> <<>>, n |-> 0, b |-> v]
PyDict(size) == [k |-> "dict", s |-> <<>>, n |-> size, b |-> FALSE]
PyNone == [k |-> "none", s |-> <<>>, n |-> 0, b |-> FALSE]

\* Python truth value testing: None, False, 0, "" and {} are false.
Truthy(v) ==
    CASE v.k = "none" -> FALSE
      [] v.k = "bool" -> v.b
      [] v.k = "int" -> v.n # 0
      [] v.k = "str" -> v.s # <<>>
      [] v.k = "dict" -> v.n # 0

\* dict.get(key, default)
Get(d, key, default) == IF d[key] = Absent THEN default ELSE d[key]

LowerAlphabet == <<"a","b","c","d","e","f","g","h","i","j","k","l","m",
                   "n","o","p","q","r","s","t","u","v","w","x","y","z">>
UpperAlphabet == <<"A","B","C","D","E","F","G","H","I","J","K","L","M",
                   "N","O","P","Q","R","S","T","U","V","W","X","Y","Z">>

UpperChar(c) ==
    IF \E i \in 1..Len(LowerAlphabet) : LowerAlphabet[i] = c
    THEN UpperAlphabet[CHOOSE i \in 1..Len(LowerAlphabet) : LowerAlphabet[i] = c]
    ELSE c

\* str.upper()
Upper(chars) == [i \in 1..Len(chars) |-> UpperChar(chars[i])]

None == "None"
Providers == {"aws", "cloudflare", "vercel"}
ProviderOrder == <<"aws", "cloudflare", "vercel">>

\* `if provider:` on the argparse value (None or one of the three choices)
Given(provider) == provider # None

\* Record types supported by each provider
SUPPORTED_RECORD_TYPES ==
    [ aws |->
        { <<"A">>, <<"A","A","A","A">>, <<"C","A","A">>,
          <<"C","N","A","M","E">>, <<"M","X">>, <<"N","A","P","T","R">>,
          <<"N","S">>, <<"P","T","R">>, <<"S","O","A">>, <<"S","P","F">>,
          <<"S","R","V">>, <<"T","X","T">> },
      cloudflare |->
        { <<"A">>, <<"A","A","A","A">>, <<"C","A","A">>,
          <<"C","N","A","M","E">>, <<"H","T","T","P","S">>, <<"T","X","T">>,
          <<"S","R","V">>, <<"L","O","C">>, <<"M","X">>, <<"N","S">>,
          <<"C","E","R","T">>, <<"D","N","S","K","E","Y">>, <<"D","S">>,
          <<"N","A","P","T","R">>, <<"S","M","I","M","E","A">>,
          <<"S","S","H","F","P">>, <<"S","V","C","B">>, <<"T","L","S","A">>,
          <<"U","R","I">> },
      vercel |->
        { <<"A">>, <<"A","A","A","A">>, <<"A","L","I","A","S">>,
          <<"C","A","A">>, <<"C","N","A","M","E">>, <<"M","X">>,
          <<"S","R","V">>, <<"T","X","T">> } ]

ProxiedTypes == { <<"A">>, <<"A","A","A","A">>, <<"C","N","A","M","E">> }
MX == <<"M","X">>

(***************************************************************************)
(* The provider rule engine.                                               *)
(*                                                                         *)
(* A warning is the text                                                   *)
(*   "  <zone_key>/<name> - <message>"                                     *)
(* held as its parts: the zone key, the displayed name, which of the five  *)
(* messages it is, and the two values the unsupported-type message         *)
(* interpolates (empty in the other four).                                 *)
(***************************************************************************)
Warning(zone_key, record, rule, record_type, provider) ==
    [ zone |-> zone_key,
      name |-> Get(record, "name", PyStr(<<"@">>)).s,
      rule |-> rule,
      type |-> record_type,
      provider |-> provider ]

\* record_type = record.get('type', '').upper()
RecordType(record) == Upper(Get(record, "type", PyStr(<<>>)).s)

\* Mutant: the type is looked up as written, not upper-cased.
UnsupportedTypeRule_CaseSensitive(zone_key, record, provider) ==
    IF Given(provider)
       /\ Get(record, "type", PyStr(<<>>)).s
            \notin SUPPORTED_RECORD_TYPES[provider]
    THEN << Warning(zone_key, record, "unsupported_type",
                    RecordType(record), provider) >>
    ELSE << >>

\* if provider: if record_type not in SUPPORTED_RECORD_TYPES[provider]
UnsupportedTypeRule(zone_key, record, provider) ==
    IF Given(provider)
       /\ RecordType(record) \notin SUPPORTED_RECORD_TYPES[provider]
    THEN << Warning(zone_key, record, "unsupported_type",
                    RecordType(record), provider) >>
    ELSE << >>

\* Mutant: `provider != 'cloudflare'` without the `provider and` guard.
ProxiedRules_NoProviderGuard(zone_key, record, provider) ==
    IF Truthy(Get(record, "proxied", PyBool(FALSE)))
    THEN (IF provider # "cloudflare"
          THEN << Warning(zone_key, record, "proxied_provider", <<>>, "") >>
          ELSE << >>)
         \o
         (IF RecordType(record) \notin ProxiedTypes
          THEN << Warning(zone_key, record, "proxied_type", <<>>, "") >>
          ELSE << >>)
    ELSE << >>

\* Mutant: the type check is an `elif` of the provider check.
ProxiedRules_TypeCheckAsElif(zone_key, record, provider) ==
    IF Truthy(Get(record, "proxied", PyBool(FALSE)))
    THEN IF Given(provider) /\ provider # "cloudflare"
         THEN << Warning(zone_key, record, "proxied_provider", <<>>, "") >>
         ELSE IF RecordType(record) \notin ProxiedTypes
         THEN << Warning(zone_key, record, "proxied_type", <<>>, "") >>
         ELSE << >>
    ELSE << >>

\* if record.get('proxied', False): two independent checks
ProxiedRules(zone_key, record, provider) ==
    IF Truthy(Get(record, "proxied", PyBool(FALSE)))
    THEN (IF Given(provider) /\ provider # "cloudflare"
          THEN << Warning(zone_key, record, "proxied_provider", <<>>, "") >>
          ELSE << >>)
         \o
         (IF RecordType(record) \notin ProxiedTypes
          THEN << Warning(zone_key, record, "proxied_type", <<>>, "") >>
          ELSE << >>)
    ELSE << >>

\* Mutant: the `provider != 'aws'` test is missing.
AliasRule_AnyProvider(zone_key, record, provider) ==
    IF Truthy(Get(record, "alias", PyNone)) /\ Given(provider)
    THEN << Warning(zone_key, record, "alias_provider", <<>>, "") >>
    ELSE << >>

\* if record.get('alias'): if provider and provider != 'aws'
AliasRule(zone_key, record, provider) ==
    IF Truthy(Get(record, "alias", PyNone))
       /\ Given(provider) /\ provider # "aws"
    THEN << Warning(zone_key, record, "alias_provider", <<>>, "") >>
    ELSE << >>

\* Mutant: `'priority' not in record` instead of `not record.get('priority')`.
MxPriorityRule_AbsentOnly(zone_key, record, provider) ==
    IF RecordType(record) = MX /\ record.priority = Absent
    THEN << Warning(zone_key, record, "mx_priority", <<>>, "") >>
    ELSE << >>

\* if record_type == 'MX' and not record.get('priority')
MxPriorityRule(zone_key, record, provider) ==
    IF RecordType(record) = MX /\ ~Truthy(Get(record, "priority", PyNone))
    THEN << Warning(zone_key, record, "mx_priority", <<>>, "") >>
    ELSE << >>

\* The body of the inner loop: what one record appends to `warnings`.
RecordWarnings(zone_key, record, provider) ==
    UnsupportedTypeRule(zone_key, record, provider)
    \o ProxiedRules(zone_key, record, provider)
    \o AliasRule(zone_key, record, provider)
    \o MxPriorityRule(zone_key, record, provider)

\* zone_config.get('records', [])
ZoneRecords(zone_config) ==
    IF zone_config.has_records THEN zone_config.records ELSE << >>

\* for idx, record in enumerate(zone_config.get('records', []))
RECURSIVE ZoneWarnings(_, _, _)
ZoneWarnings(zone_key, records, provider) ==
    IF records = << >> THEN << >>
    ELSE RecordWarnings(zone_key, Head(records), provider)
         \o ZoneWarnings(zone_key, Tail(records), provider)

\* for zone_key, zone_config in config.items()
RECURSIVE AllWarnings(_, _)
AllWarnings(cfg, provider) ==
    IF cfg = << >> THEN << >>
    ELSE ZoneWarnings(Head(cfg).key, ZoneRecords(Head(cfg)), provider)
         \o AllWarnings(Tail(cfg), provider)

\* returns (len(warnings) == 0, warnings)
check_provider_compatibility(cfg, provider) ==
    << Len(AllWarnings(cfg, provider)) = 0, AllWarnings(cfg, provider) >>

(***************************************************************************)
(* The statistics summarizer.                                              *)
(***************************************************************************)
\* Mutant: the bucket is set to 1 instead of incremented.
Tally_Overwrite(record_types, record_type) ==
    [ t \in (DOMAIN record_types) \cup {record_type} |->
        IF t = record_type THEN 1 ELSE record_types[t] ]

\* stats['record_types'][record_type] = stats['record_types'].get(record_type, 0) + 1
Tally(record_types, record_type) ==
    [ t \in (DOMAIN record_types) \cup {record_type} |->
        (IF t \in DOMAIN record_types THEN record_types[t] ELSE 0)
        + (IF t = record_type THEN 1 ELSE 0) ]

\* record_type = record.get('type', 'UNKNOWN')
StatType(record) ==
    Get(record, "type", PyStr(<<"U","N","K","N","O","W","N">>)).s

\* for record in records: count record types
RECURSIVE TallyRecords(_, _)
TallyRecords(record_types, records) ==
    IF records = << >> THEN record_types
    ELSE TallyRecords(Tally(record_types, StatType(Head(records))),
                      Tail(records))

\* zone_config.get('domain')
ZoneDomain(zone_config) ==
    IF zone_config.domain = Absent THEN PyNone ELSE zone_config.domain

\* One iteration of the zone loop.
StatsStep(st, zone) ==
    [ zones |-> st.zones,
      total_records |-> st.total_records + Len(ZoneRecords(zone)),
      record_types |-> TallyRecords(st.record_types, ZoneRecords(zone)),
      zones_list |-> Append(st.zones_list,
                            [ key |-> zone.key,
                              domain |-> ZoneDomain(zone),
                              records_count |-> Len(ZoneRecords(zone)) ]) ]

RECURSIVE StatsLoop(_, _)
StatsLoop(st, cfg) ==
    IF cfg = << >> THEN st
    ELSE StatsLoop(StatsStep(st, Head(cfg)), Tail(cfg))

get_statistics(cfg) ==
    StatsLoop([ zones |-> Len(cfg),
                total_records |-> 0,
                record_types |-> << >>,
                zones_list |-> << >> ],
              cfg)

(***************************************************************************)
(* Input documents.  A document is the parsed JSON object: zone entries in *)
(* document order, each a zone key with its zone object; a record is an    *)
(* object with the five fields the code reads.                             *)
(***************************************************************************)
Record(type, name, proxied, alias, priority) ==
    [ type |-> type, name |-> name, proxied |-> proxied, alias |-> alias,
      priority |-> priority ]

TypeOptions ==
    { Absent, PyStr(<<>>),
      PyStr(<<"A">>), PyStr(<<"a">>), PyStr(<<"A","A","A","A">>),
      PyStr(<<"C","N","A","M","E">>), PyStr(<<"c","n","a","m","e">>),
      PyStr(<<"M","X">>), PyStr(<<"m","x">>), PyStr(<<"M","x">>),
      PyStr(<<"S","V","C","B">>), PyStr(<<"s","v","c","b">>),
      PyStr(<<"A","L","I","A","S">>), PyStr(<<"T","X","T">>),
      PyStr(<<"P","T","R">>), PyStr(<<"H","T","T","P","S">>) }
NameOptions == { Absent, PyStr(<<"w","w","w">>) }
ProxiedOptions == { Absent, PyBool(TRUE), PyBool(FALSE) }
AliasOptions ==
    { Absent, PyNone, PyBool(FALSE), PyStr(<<>>), PyDict(0), PyDict(2) }
PriorityOptions == { Absent, PyNone, PyInt(0), PyInt(10) }

\* Every combination of the field options: the one-record documents.
AllRecords ==
    { Record(t, nm, px, al, pr) :
        t \in TypeOptions, nm \in NameOptions, px \in ProxiedOptions,
        al \in AliasOptions, pr \in PriorityOptions }

\* The records the documents of several records and zones are built from.
SampleRecords ==
    { Record(PyStr(<<"A">>), PyStr(<<"w","w","w">>), Absent, Absent, Absent),
      Record(PyStr(<<"M","X">>), Absent, Absent, Absent, Absent),
      Record(PyStr(<<"m","x">>), PyStr(<<"w","w","w">>), Absent, Absent,
             PyInt(10)),
      Record(PyStr(<<"S","V","C","B">>), PyStr(<<"w","w","w">>), Absent,
             Absent, Absent),
      Record(PyStr(<<"T","X","T">>), Absent, PyBool(TRUE), Absent, Absent),
      Record(PyStr(<<"a">>), Absent, PyBool(TRUE), Absent, Absent),
      Record(PyStr(<<"A">>), PyStr(<<"w","w","w">>), Absent, PyDict(2),
             Absent),
      Record(Absent, Absent, Absent, PyDict(0), PyInt(0)) }

\* The records the documents read by a run of main are built from: one that
\* draws no warning, one that draws a warning under every provider, and one
\* that draws a warning under aws and vercel only.
RunRecords ==
    { Record(PyStr(<<"A">>), PyStr(<<"w","w","w">>), Absent, Absent, Absent),
      Record(PyStr(<<"M","X">>), Absent, Absent, Absent, Absent),
      Record(PyStr(<<"S","V","C","B">>), PyStr(<<"w","w","w">>), Absent,
             Absent, Absent) }

ZoneKeys == <<"z1", "z2", "z3", "z4">>
ZoneDomains ==
    << PyStr(<<"e","x",".","c","o","m">>), PyStr(<<"e","x",".","o","r","g">>),
       Absent, PyStr(<<"e","x",".","n","e","t">>) >>

\* The "records" entry of a zone with at most n records: missing, or a list.
ZoneContents(n, records) ==
    { [has_records |-> FALSE, records |-> << >>] }
    \cup { [has_records |-> TRUE, records |-> rs] :
             rs \in UNION { [1..k -> records] : k \in 0..n } }

\* The lists of z zones holding at most n records in all.
RECURSIVE ZoneLists(_, _, _)
ZoneLists(z, n, records) ==
    IF z = 0 THEN { << >> }
    ELSE UNION { { <<c>> \o rest :
                     rest \in ZoneLists(z - 1, n - Len(c.records), records) } :
                 c \in ZoneContents(n, records) }

Keyed(zl) ==
    [ i \in 1..Len(zl) |->
        [ key |-> ZoneKeys[i], domain |-> ZoneDomains[i],
          has_records |-> zl[i].has_records, records |-> zl[i].records ] ]

SampleDocuments ==
    { Keyed(zl) :
        zl \in UNION { ZoneLists(z, MaxRecords, SampleRecords) :
                         z \in 0..MaxZones } }

OneRecordDocuments ==
    { Keyed(<< [has_records |-> TRUE, records |-> <<r>>] >>) :
        r \in AllRecords }

Documents == SampleDocuments \cup OneRecordDocuments

RunDocuments ==
    { Keyed(zl) :
        zl \in UNION { ZoneLists(z, MaxRecords, RunRecords) :
                         z \in 0..MaxZones } }

ProviderArgs == Providers \cup {None}

(***************************************************************************)
(* SpecRules: the two pure functions applied to a document.                *)
(***************************************************************************)
NoStats ==
    [ zones |-> 0, total_records |-> 0, record_types |-> << >>,
      zones_list |-> << >> ]
NoResult == << TRUE, << >> >>

RulesIdle ==
    /\ r_pc = "idle"
    /\ r_config = << >>
    /\ r_provider = None
    /\ r_result = NoResult
    /\ r_stats = NoStats

CliIdle ==
    /\ pc = "idle"
    /\ args = [provider |-> None, strict |-> FALSE]
    /\ schema = "unset"
    /\ config = << >>
    /\ validation = [done |-> FALSE, schema_valid |-> FALSE,
                     schema_errors |-> << >>]
    /\ stats = NoStats
    /\ compat = [done |-> FALSE, compat_ok |-> TRUE, compat_warnings |-> << >>]
    /\ out = << >>
    /\ calls = << >>
    /\ exit_code = 0
    /\ env = [schema_file |-> "unread", config_file |-> "unread",
              validator |-> "unset", yielded |-> 0]

RulesInit ==
    /\ CliIdle
    /\ r_pc = "ready"
    /\ r_config \in Documents
    /\ r_provider = None
    /\ r_result = NoResult
    /\ r_stats = NoStats

Summarize ==
    /\ r_pc = "ready"
    /\ r_stats' = get_statistics(r_config)
    /\ r_pc' = "summarized"
    /\ UNCHANGED <<r_config, r_provider, r_result>>
    /\ UNCHANGED cli_vars

CheckCompatibility(provider) ==
    /\ r_pc = "summarized"
    /\ r_provider' = provider
    /\ r_result' = check_provider_compatibility(r_config, provider)
    /\ r_pc' = "checked"
    /\ UNCHANGED <<r_config, r_stats>>
    /\ UNCHANGED cli_vars

RulesNext ==
    \/ Summarize
    \/ \E provider \in ProviderArgs : CheckCompatibility(provider)

SpecRules == RulesInit /\ [][RulesNext]_vars

(***************************************************************************)
(* The schema check.  Draft7Validator is a library: for a document it      *)
(* yields some violations and then either completes or, when the schema    *)
(* itself is malformed, raises.                                            *)
(***************************************************************************)
Violation(i) == [msg |-> "violation", n |-> i]
ExceptionText == [msg |-> "exception", n |-> 0]

\* The violations iter_errors yields before it completes or raises.
Yielded(n) == [i \in 1..n |-> Violation(i)]

\* errors = []; try: append each formatted error; return len(errors) == 0,
\* errors; except Exception as e: errors.append(str(e)); return False, errors
validate_schema(yielded, raised) ==
    IF raised
    THEN << FALSE, Append(yielded, ExceptionText) >>
    ELSE << Len(yielded) = 0, yielded >>

(***************************************************************************)
(* Spec: one run of main.  `out` holds what was printed, one entry per     *)
(* print call (or per helper that only prints); `calls` the functions      *)
(* called; the run is over when pc = "done", with exit_code its status.    *)
(***************************************************************************)
Line(kind) == [kind |-> kind, item |-> << >>]
ItemLine(kind, item) == [kind |-> kind, item |-> item]
Lines(kind, items) == [i \in 1..Len(items) |-> ItemLine(kind, items[i])]

Exit(code) ==
    /\ pc' = "done"
    /\ exit_code' = code

\* args = parser.parse_args(); print_header(); print("Loading files...")
Init ==
    /\ RulesIdle
    /\ pc = "load_schema"
    /\ args \in [provider : ProviderArgs, strict : BOOLEAN]
    /\ schema = "unset"
    /\ config = << >>
    /\ validation = [done |-> FALSE, schema_valid |-> FALSE,
                     schema_errors |-> << >>]
    /\ stats = NoStats
    /\ compat = [done |-> FALSE, compat_ok |-> TRUE, compat_warnings |-> << >>]
    /\ out = << Line("header"), Line("loading") >>
    /\ calls = << >>
    /\ exit_code = 0
    /\ env = [schema_file |-> "unread", config_file |-> "unread",
              validator |-> "unset", yielded |-> 0]

SchemaFiles == {"missing", "unparseable", "parsed"}

\* schema = load_schema(): the file may be missing (message, sys.exit(1)),
\* may not hold JSON (json.load raises, nothing catches it: traceback and
\* exit status 1), or holds a JSON document, which is returned.
load_schema(file) ==
    /\ pc = "load_schema"
    /\ calls' = Append(calls, "load_schema")
    /\ env' = [env EXCEPT !.schema_file = file]
    /\ CASE file = "missing" ->
              /\ out' = Append(out, Line("schema_not_found"))
              /\ Exit(1)
              /\ UNCHANGED schema
         [] file = "unparseable" ->
              /\ out' = Append(out, Line("traceback"))
              /\ Exit(1)
              /\ UNCHANGED schema
         [] OTHER ->
              /\ schema' = "loaded"
              /\ pc' = "load_config"
              /\ UNCHANGED <<out, exit_code>>
    /\ UNCHANGED <<args, config, validation, stats, compat>>
    /\ UNCHANGED rule_vars

ConfigFiles == {"missing", "invalid_json", "parsed"}

\* config = load_config(args.config_file); print("Files loaded successfully")
load_config(file, document) ==
    /\ pc = "load_config"
    /\ calls' = Append(calls, "load_config")
    /\ env' = [env EXCEPT !.config_file = file]
    /\ CASE file = "missing" ->
              /\ out' = Append(out, Line("file_not_found"))
              /\ Exit(1)
              /\ UNCHANGED config
         [] file = "invalid_json" ->
              /\ out' = out \o << Line("invalid_json"), Line("json_error") >>
              /\ Exit(1)
              /\ UNCHANGED config
         [] OTHER ->
              /\ config' = document
              /\ out' = out \o << Line("files_loaded"), Line("validating") >>
              /\ pc' = "validate_schema"
              /\ UNCHANGED exit_code
    /\ UNCHANGED <<args, schema, validation, stats, compat>>
    /\ UNCHANGED rule_vars

\* schema_valid, schema_errors = validate_schema(config, schema): the
\* validator yields n violations and then completes, or raises because the
\* loaded schema document is malformed.
ValidateSchema(n, raised) ==
    /\ pc = "validate_schema"
    /\ calls' = Append(calls, "validate_schema")
    /\ env' = [env EXCEPT !.validator =
                              IF raised THEN "raised" ELSE "completed",
                            !.yielded = n]
    /\ validation' =
         [ done |-> TRUE,
           schema_valid |-> validate_schema(Yielded(n), raised)[1],
           schema_errors |-> validate_schema(Yielded(n), raised)[2] ]
    /\ pc' = "report_schema"
    /\ UNCHANGED <<args, schema, config, stats, compat, out, exit_code>>
    /\ UNCHANGED rule_vars

\* print("Schema validation errors:"); for error in schema_errors:
\* print(error); print()
SchemaReport(schema_errors) ==
    << Line("schema_errors_header") >>
    \o Lines("schema_error", schema_errors)
    \o << Line("blank") >>

\* Mutant: the sys.exit(1) after the schema errors is missing.
ReportSchema_FallsThrough ==
    /\ pc = "report_schema"
    /\ IF validation.schema_valid
       THEN out' = Append(out, Line("valid_structure"))
       ELSE out' = out \o SchemaReport(validation.schema_errors)
    /\ pc' = "statistics"
    /\ UNCHANGED <<args, schema, config, validation, stats, compat, calls,
                   env, exit_code>>
    /\ UNCHANGED rule_vars

\* if schema_valid: print("Valid JSON structure")
\* else: print the errors; sys.exit(1)
ReportSchema ==
    /\ pc = "report_schema"
    /\ IF validation.schema_valid
       THEN /\ out' = Append(out, Line("valid_structure"))
            /\ pc' = "statistics"
            /\ UNCHANGED exit_code
       ELSE /\ out' = out \o SchemaReport(validation.schema_errors)
            /\ Exit(1)
    /\ UNCHANGED <<args, schema, config, validation, stats, compat, calls,
                   env>>
    /\ UNCHANGED rule_vars

\* stats = get_statistics(config); print_statistics(stats)
Statistics ==
    /\ pc = "statistics"
    /\ calls' = Append(calls, "get_statistics")
    /\ stats' = get_statistics(config)
    /\ out' = Append(out, ItemLine("statistics", get_statistics(config)))
    /\ pc' = "compatibility"
    /\ UNCHANGED <<args, schema, config, validation, compat, exit_code, env>>
    /\ UNCHANGED rule_vars

\* if args.provider: print("Checking compatibility with ...");
\* compat_ok, compat_warnings = check_provider_compatibility(config, args.provider)
CheckProvider ==
    /\ pc = "compatibility"
    /\ Given(args.provider)
    /\ calls' = Append(calls, "check_provider_compatibility")
    /\ compat' =
         [ done |-> TRUE,
           compat_ok |->
             check_provider_compatibility(config, args.provider)[1],
           compat_warnings |->
             check_provider_compatibility(config, args.provider)[2] ]
    /\ out' = Append(out, ItemLine("checking", args.provider))
    /\ pc' = "report_compatibility"
    /\ UNCHANGED <<args, schema, config, validation, stats, exit_code, env>>
    /\ UNCHANGED rule_vars

\* Mutant: the report stops at the first warning.
CompatibilityReport_FirstOnly(compat_warnings) ==
    << Line("warnings_header") >>
    \o Lines("warning", SubSeq(compat_warnings, 1, 1))
    \o << Line("blank") >>

\* print("Compatibility warnings with ..."); for warning in
\* compat_warnings: print(warning); print()
CompatibilityReport(compat_warnings) ==
    << Line("warnings_header") >>
    \o Lines("warning", compat_warnings)
    \o << Line("blank") >>

\* Mutant: --strict is not honoured.
StrictOutcome_Ignored(strict) == [lines |-> << >>, exits |-> FALSE]

\* if args.strict: print("Validation failed in strict mode"); sys.exit(1)
StrictOutcome(strict) ==
    IF strict
    THEN [lines |-> << Line("strict_failure") >>, exits |-> TRUE]
    ELSE [lines |-> << >>, exits |-> FALSE]

\* if compat_ok: print("Compatible with ...")
\* else: print the warnings; if args.strict: ...; sys.exit(1)
ReportCompatibility ==
    /\ pc = "report_compatibility"
    /\ IF compat.compat_ok
       THEN /\ out' = Append(out, ItemLine("compatible", args.provider))
            /\ pc' = "banner"
            /\ UNCHANGED exit_code
       ELSE /\ out' = out \o CompatibilityReport(compat.compat_warnings)
                          \o StrictOutcome(args.strict).lines
            /\ IF StrictOutcome(args.strict).exits
               THEN Exit(1)
               ELSE pc' = "banner" /\ UNCHANGED exit_code
    /\ UNCHANGED <<args, schema, config, validation, stats, compat, calls,
                   env>>
    /\ UNCHANGED rule_vars

\* status = "ok" if compat_ok else "warn"; print(f"  {status} {provider}")
StatusLine(cfg, provider) ==
    ItemLine(IF check_provider_compatibility(cfg, provider)[1]
             THEN "status_ok" ELSE "status_warn",
             provider)

\* else: print("Checking general compatibility..."); for provider in
\* ['aws', 'cloudflare', 'vercel']: one pass and one status line each; print()
CheckGeneral ==
    /\ pc = "compatibility"
    /\ ~Given(args.provider)
    /\ calls' = calls \o [i \in 1..Len(ProviderOrder) |->
                            "check_provider_compatibility"]
    /\ out' = out \o << Line("checking_general") >>
                  \o [i \in 1..Len(ProviderOrder) |->
                        StatusLine(config, ProviderOrder[i])]
                  \o << Line("blank") >>
    /\ pc' = "banner"
    /\ UNCHANGED <<args, schema, config, validation, stats, compat, exit_code,
                   env>>
    /\ UNCHANGED rule_vars

\* Final result: the success banner; main returns and the status is 0.
Banner ==
    /\ pc = "banner"
    /\ out' = out \o << Line("success_banner"), Line("ready_to_use") >>
    /\ Exit(0)
    /\ UNCHANGED <<args, schema, config, validation, stats, compat, calls,
                   env>>
    /\ UNCHANGED rule_vars

main ==
    \/ \E file \in SchemaFiles : load_schema(file)
    \/ \E file \in ConfigFiles, document \in RunDocuments :
         load_config(file, document)
    \/ \E n \in 0..MaxErrors, raised \in BOOLEAN : ValidateSchema(n, raised)
    \/ ReportSchema
    \/ Statistics
    \/ CheckProvider
    \/ ReportCompatibility
    \/ CheckGeneral
    \/ Banner

Next == main

Spec == Init /\ [][Next]_vars

(***************************************************************************)
(* Vocabulary of the properties of the rule engine and the summarizer.     *)
(***************************************************************************)
\* The records of a document in document order, each with its zone key.
RECURSIVE Flatten(_)
Flatten(cfg) ==
    IF cfg = << >> THEN << >>
    ELSE [ i \in 1..Len(ZoneRecords(Head(cfg))) |->
             [ zone |-> Head(cfg).key, record |-> ZoneRecords(Head(cfg))[i] ] ]
         \o Flatten(Tail(cfg))

OfRule(ws, rules) == SelectSeq(ws, LAMBDA w : w.rule \in rules)

DisplayName(record) ==
    IF record.name = Absent THEN <<"@">> ELSE record.name.s

\* The warnings of one rule expected for a document: one per record that
\* satisfies Fires, in document order.
Expected(cfg, Fires(_), rule, Type(_), provider) ==
    LET hit == SelectSeq(Flatten(cfg), LAMBDA e : Fires(e.record))
    IN  [ i \in 1..Len(hit) |->
            [ zone |-> hit[i].zone, name |-> DisplayName(hit[i].record),
              rule |-> rule, type |-> Type(hit[i].record),
              provider |-> provider ] ]

NoType(record) == << >>

RECURSIVE IsSubsequence(_, _)
IsSubsequence(a, b) ==
    IF a = << >> THEN TRUE
    ELSE IF b = << >> THEN FALSE
    ELSE IF Head(a) = Head(b) THEN IsSubsequence(Tail(a), Tail(b))
    ELSE IsSubsequence(a, Tail(b))

MxSpellings == { <<"M","X">>, <<"m","x">>, <<"M","x">>, <<"m","X">> }
ProxySpellings ==
    { <<"A">>, <<"a">>, <<"A","A","A","A">>, <<"C","N","A","M","E">>,
      <<"c","n","a","m","e">> }
Falsy(v) == v \in { PyNone, PyBool(FALSE), PyInt(0), PyStr(<<>>), PyDict(0) }

\* An MX record (in any letter case) whose priority is absent or falsy.
LacksPriority(record) ==
    /\ record.type # Absent
    /\ record.type.s \in MxSpellings
    /\ (record.priority = Absent \/ Falsy(record.priority))

\* C4: after check_provider_compatibility, for every provider and for no
\* provider, the MX-priority warnings of the result are exactly one per MX
\* record (any letter case) whose priority is absent or falsy (0 included),
\* in document order, each record alone yields one such warning or none, and
\* a document holding such a record is not reported compatible.
MxPriorityWarnings ==
    r_pc = "checked" =>
        /\ OfRule(r_result[2], {"mx_priority"})
             = Expected(r_config, LacksPriority, "mx_priority", NoType, "")
        /\ \A i \in DOMAIN Flatten(r_config) :
             LET e == Flatten(r_config)[i]
             IN  Len(OfRule(RecordWarnings(e.zone, e.record, r_provider),
                            {"mx_priority"}))
                   = (IF LacksPriority(e.record) THEN 1 ELSE 0)
        /\ (\E i \in DOMAIN Flatten(r_config) :
              LacksPriority(Flatten(r_config)[i].record))
             => r_result[1] = FALSE

\* C4 witness: a lower-case mx record with priority 0 was checked with no
\* provider and drew the warning.
MxPriorityWitness ==
    /\ r_pc = "checked"
    /\ r_provider = None
    /\ \E i \in DOMAIN Flatten(r_config) :
         /\ Flatten(r_config)[i].record.type = PyStr(<<"m","x">>)
         /\ Flatten(r_config)[i].record.priority = PyInt(0)
    /\ Len(OfRule(r_result[2], {"mx_priority"})) = 1
    /\ r_result[1] = FALSE

\* A record whose upper-cased type the provider does not support; a record
\* without a type counts as unsupported.
Unsupported(record, provider) ==
    \/ record.type = Absent
    \/ Upper(record.type.s) \notin SUPPORTED_RECORD_TYPES[provider]

UpperType(record) ==
    IF record.type = Absent THEN << >> ELSE Upper(record.type.s)

SvcbSpellings == { <<"S","V","C","B">>, <<"s","v","c","b">> }

\* C5: after check_provider_compatibility with a provider, the
\* unsupported-type warnings of the result are exactly one per record whose
\* upper-cased type is not in the provider's set (a record without a type
\* included), naming the upper-cased type and the provider, in document
\* order; an SVCB record in either letter case yields one under aws and
\* none under cloudflare.
UnsupportedTypeWarnings ==
    (r_pc = "checked" /\ r_provider \in Providers) =>
        /\ OfRule(r_result[2], {"unsupported_type"})
             = Expected(r_config, LAMBDA r : Unsupported(r, r_provider),
                        "unsupported_type", UpperType, r_provider)
        /\ \A i \in DOMAIN Flatten(r_config) :
             LET e == Flatten(r_config)[i]
                 n == Len(OfRule(RecordWarnings(e.zone, e.record, r_provider),
                                 {"unsupported_type"}))
             IN  /\ n = (IF Unsupported(e.record, r_provider) THEN 1 ELSE 0)
                 /\ (e.record.type # Absent
                     /\ e.record.type.s \in SvcbSpellings)
                      => n = (CASE r_provider = "aws" -> 1
                                [] r_provider = "cloudflare" -> 0
                                [] r_provider = "vercel" -> 1)

\* C5 witness: a lower-case svcb record was checked under aws and drew the
\* warning naming SVCB.
UnsupportedTypeWitness ==
    /\ r_pc = "checked"
    /\ r_provider = "aws"
    /\ \E i \in DOMAIN Flatten(r_config) :
         Flatten(r_config)[i].record.type = PyStr(<<"s","v","c","b">>)
    /\ \E i \in DOMAIN r_result[2] :
         /\ r_result[2][i].rule = "unsupported_type"
         /\ r_result[2][i].type = <<"S","V","C","B">>

\* A record with proxied true, no alias, and a type that may be proxied.
ProxiedOnProxyType(record) ==
    /\ record.proxied = PyBool(TRUE)
    /\ record.alias = Absent
    /\ record.type # Absent
    /\ record.type.s \in ProxySpellings

\* C6: a record with proxied true, no alias and type A, AAAA or CNAME (any
\* letter case) yields, under aws or vercel, exactly the one
\* proxied-is-Cloudflare-only warning, and under cloudflare or no provider
\* no warning; a document of such records yields one such warning per
\* record, or none.
ProxiedOnProxyTypeWarnings ==
    r_pc = "checked" =>
        /\ \A i \in DOMAIN Flatten(r_config) :
             LET e == Flatten(r_config)[i]
                 ws == RecordWarnings(e.zone, e.record, r_provider)
             IN  ProxiedOnProxyType(e.record) =>
                   IF r_provider \in {"aws", "vercel"}
                   THEN /\ Len(ws) = 1
                        /\ ws[1].rule = "proxied_provider"
                        /\ ws[1].zone = e.zone
                        /\ ws[1].name = DisplayName(e.record)
                   ELSE ws = << >>
        /\ (\A i \in DOMAIN Flatten(r_config) :
              ProxiedOnProxyType(Flatten(r_config)[i].record))
             => r_result[2]
                  = (IF r_provider \in {"aws", "vercel"}
                     THEN Expected(r_config, ProxiedOnProxyType,
                                   "proxied_provider", NoType, "")
                     ELSE << >>)

\* C6 witness: a document of two proxied records of type "a" was checked
\* under vercel and drew two warnings.
ProxiedOnProxyTypeWitness ==
    /\ r_pc = "checked"
    /\ r_provider = "vercel"
    /\ Len(Flatten(r_config)) = 2
    /\ \A i \in DOMAIN Flatten(r_config) :
         /\ ProxiedOnProxyType(Flatten(r_config)[i].record)
         /\ Flatten(r_config)[i].record.type = PyStr(<<"a">>)
    /\ Len(r_result[2]) = 2

AliasPresent(record) == record.alias # Absent
AliasSet(record) == record.alias # Absent /\ ~Falsy(record.alias)

\* C7 as claimed: whenever the alias field is present, whatever its value,
\* a provider other than aws draws exactly one alias warning for the record;
\* an absent alias, aws, or no provider draws none.
AliasWarningsWhenPresent ==
    r_pc = "checked" =>
        OfRule(r_result[2], {"alias_provider"})
          = (IF r_provider \in {"cloudflare", "vercel"}
             THEN Expected(r_config, AliasPresent, "alias_provider", NoType, "")
             ELSE << >>)

\* C7 amended: a provider other than aws draws exactly one alias warning for
\* each record whose alias field is present with a truthy value; a record
\* whose alias is absent or falsy (false, "", {}) draws none, and neither
\* does any record under aws or with no provider.
AliasWarningsWhenSet ==
    r_pc = "checked" =>
        /\ OfRule(r_result[2], {"alias_provider"})
             = (IF r_provider \in {"cloudflare", "vercel"}
                THEN Expected(r_config, AliasSet, "alias_provider", NoType, "")
                ELSE << >>)
        /\ \A i \in DOMAIN Flatten(r_config) :
             LET e == Flatten(r_config)[i]
             IN  Len(OfRule(RecordWarnings(e.zone, e.record, r_provider),
                            {"alias_provider"}))
                   = (IF AliasSet(e.record)
                         /\ r_provider \in {"cloudflare", "vercel"}
                      THEN 1 ELSE 0)

\* C7 witness: records with a non-empty alias object were checked under
\* cloudflare and drew the warning, and a record whose alias is an empty
\* object was checked under cloudflare and drew none.
AliasWarningsWitness ==
    /\ r_pc = "checked"
    /\ r_provider = "cloudflare"
    /\ Len(Flatten(r_config)) = 2
    /\ Flatten(r_config)[1].record.alias = PyDict(2)
    /\ Flatten(r_config)[2].record.alias = PyDict(0)
    /\ Len(OfRule(r_result[2], {"alias_provider"})) = 1

Structural == {"proxied_type", "mx_priority"}

\* C8: the proxied-type and MX-priority warnings of a result are the same
\* sequence whichever provider, or none, was given; with no provider the
\* result holds warnings of these two kinds only; so the no-provider result
\* is a subsequence of every provider's, and a document compatible under a
\* provider is compatible with no provider.
StructuralRulesProviderIndependent ==
    r_pc = "checked" =>
        LET none == check_provider_compatibility(r_config, None)
        IN  /\ OfRule(r_result[2], Structural) = OfRule(none[2], Structural)
            /\ \A i \in DOMAIN none[2] : none[2][i].rule \in Structural
            /\ IsSubsequence(none[2], r_result[2])
            /\ r_result[1] => none[1]
            /\ \A p \in Providers :
                 OfRule(check_provider_compatibility(r_config, p)[2],
                        Structural)
                   = OfRule(r_result[2], Structural)

\* C8 witness: a document whose result under aws mixes provider warnings
\* with structural ones (a proxied TXT record and an MX record without
\* priority) was checked.
StructuralRulesWitness ==
    /\ r_pc = "checked"
    /\ r_provider = "aws"
    /\ Len(OfRule(r_result[2], Structural)) = 2
    /\ Len(r_result[2]) > 2
    /\ \E i \in DOMAIN r_result[2] : r_result[2][i].rule = "proxied_type"
    /\ \E i \in DOMAIN r_result[2] : r_result[2][i].rule = "mx_priority"

\* The type string of a record exactly as written, "UNKNOWN" without one.
WrittenType(record) ==
    IF record.type = Absent THEN <<"U","N","K","N","O","W","N">>
    ELSE record.type.s

RECURSIVE SumCounts(_)
SumCounts(f) ==
    IF DOMAIN f = {} THEN 0
    ELSE LET t == CHOOSE x \in DOMAIN f : TRUE
         IN  f[t] + SumCounts([x \in (DOMAIN f) \ {t} |-> f[x]])

RECURSIVE SumRecordsCount(_)
SumRecordsCount(zl) ==
    IF zl = << >> THEN 0
    ELSE Head(zl).records_count + SumRecordsCount(Tail(zl))

\* Two zones of 3 and 5 records.
EightRecordDocument ==
    LET a == Record(PyStr(<<"A">>), Absent, Absent, Absent, Absent)
        m == Record(PyStr(<<"m","x">>), Absent, Absent, Absent, Absent)
    IN  Keyed(<< [has_records |-> TRUE, records |-> <<a, m, a>>],
                 [has_records |-> TRUE, records |-> <<m, a, m, a, m>>] >>)

\* C10: get_statistics returns zones = the number of zone keys, zones_list
\* with one entry per zone in document order carrying the zone's record
\* count, total_records = the sum of the records_count entries, and
\* record_types with one bucket per type string as written ("UNKNOWN" for a
\* record without a type) counting the records written that way, so the
\* buckets sum to total_records; two zones of 3 and 5 records give zones = 2
\* and total_records = 8.
StatisticsConsistent ==
    /\ r_pc \in {"summarized", "checked"} =>
         /\ r_stats.zones = Len(r_config)
         /\ Len(r_stats.zones_list) = Len(r_config)
         /\ \A i \in DOMAIN r_config :
              /\ r_stats.zones_list[i].key = r_config[i].key
              /\ r_stats.zones_list[i].records_count
                   = (IF r_config[i].has_records
                      THEN Len(r_config[i].records) ELSE 0)
         /\ r_stats.total_records = SumRecordsCount(r_stats.zones_list)
         /\ r_stats.total_records = Len(Flatten(r_config))
         /\ SumCounts(r_stats.record_types) = r_stats.total_records
         /\ DOMAIN r_stats.record_types
              = { WrittenType(Flatten(r_config)[i].record) :
                    i \in DOMAIN Flatten(r_config) }
         /\ \A t \in DOMAIN r_stats.record_types :
              r_stats.record_types[t]
                = Cardinality({ i \in DOMAIN Flatten(r_config) :
                                  WrittenType(Flatten(r_config)[i].record) = t })
    /\ get_statistics(EightRecordDocument).zones = 2
    /\ get_statistics(EightRecordDocument).total_records = 8

\* C10 witness: a document of two zones holding an "MX" and an "mx" record
\* was summarized into two separate buckets of one record each.
StatisticsWitness ==
    /\ r_pc = "summarized"
    /\ r_stats.zones = 2
    /\ r_stats.total_records = 2
    /\ DOMAIN r_stats.record_types = { <<"M","X">>, <<"m","x">> }
    /\ r_stats.zones_list[1].records_count = 1

(***************************************************************************)
(* Vocabulary of the properties of a run of main.                          *)
(***************************************************************************)
Printed(kind) == SelectSeq(out, LAMBDA l : l.kind = kind)
Items(kind) == [i \in 1..Len(Printed(kind)) |-> Printed(kind)[i].item]
Called(f) == \E i \in DOMAIN calls : calls[i] = f
IsPrefix(a, b) == Len(a) <= Len(b) /\ a = SubSeq(b, 1, Len(a))
Finished == pc = "done"
SchemaRejected == validation.done /\ ~validation.schema_valid
SchemaAccepted == validation.done /\ validation.schema_valid
WarningsReturned == compat.done /\ compat.compat_warnings # << >>

PhaseOrder ==
    << "load_schema", "load_config", "validate_schema", "get_statistics" >>
    \o (IF Given(args.provider)
        THEN << "check_provider_compatibility" >>
        ELSE << "check_provider_compatibility",
                "check_provider_compatibility",
                "check_provider_compatibility" >>)

\* C2: once validate_schema has returned false the run never calls
\* get_statistics or check_provider_compatibility, and it ends with status 1
\* having printed every collected schema error, in order, and no success
\* banner; get_statistics and check_provider_compatibility are called only
\* after a schema check that returned valid; and the calls of every run are
\* a prefix of load, schema check, statistics, compatibility.
SchemaFailureTerminal ==
    /\ SchemaRejected =>
         /\ ~Called("get_statistics")
         /\ ~Called("check_provider_compatibility")
         /\ pc \in {"report_schema", "done"}
    /\ (Finished /\ SchemaRejected) =>
         /\ exit_code = 1
         /\ Items("schema_error") = validation.schema_errors
         /\ IsPrefix(Yielded(env.yielded), validation.schema_errors)
         /\ validation.schema_errors # << >>
         /\ Printed("success_banner") = << >>
    /\ (Called("get_statistics") \/ Called("check_provider_compatibility"))
         => SchemaAccepted
    /\ IsPrefix(calls, PhaseOrder)

\* C2 witness: a run whose schema check collected two errors has ended.
SchemaFailureWitness ==
    /\ Finished
    /\ SchemaRejected
    /\ Len(validation.schema_errors) = 2
    /\ Len(Printed("schema_error")) = 2
    /\ exit_code = 1

\* C3: a finished run whose provider pass returned warnings has printed
\* every warning check_provider_compatibility returns for the whole
\* document, in order; with --strict it then printed the strict-mode
\* failure line as its last line and ended with status 1, without --strict
\* it went on to the success banner and ended with status 0; and only a
\* strict run ends with status 1 after the provider pass.
StrictEscalatesAfterFullReport ==
    /\ (Finished /\ WarningsReturned) =>
         /\ Items("warning")
              = check_provider_compatibility(config, args.provider)[2]
         /\ Items("warning") = AllWarnings(config, args.provider)
         /\ IF args.strict
            THEN /\ exit_code = 1
                 /\ out[Len(out)].kind = "strict_failure"
                 /\ Printed("success_banner") = << >>
            ELSE /\ exit_code = 0
                 /\ Printed("success_banner") # << >>
    /\ (Finished /\ compat.done /\ exit_code = 1) =>
         args.strict /\ WarningsReturned

\* C3 witness: a strict run under aws printed the two warnings of a
\* document of two zones and ended with status 1.
StrictEscalatesWitness ==
    /\ Finished
    /\ args.strict
    /\ args.provider = "aws"
    /\ Len(config) = 2
    /\ Len(Items("warning")) = 2
    /\ Items("warning")[1].zone = "z1"
    /\ Items("warning")[2].zone = "z2"
    /\ exit_code = 1

\* C9 as claimed: when the validator raises on a malformed schema the
\* outcome is not the (false, errors) pair of a rejected document and is
\* not reported under the "Schema validation errors" heading; and
\* schema_valid is true exactly when the validator completed and yielded no
\* error.
InternalErrorDistinct ==
    /\ env.validator = "raised" =>
         /\ ~SchemaRejected
         /\ Printed("schema_errors_header") = << >>
    /\ validation.done =>
         (validation.schema_valid
            <=> (env.validator = "completed" /\ env.yielded = 0))

====
